---------------------------- MODULE Spec2Model ----------------------------
(***************************************************************************)
(* Model of corgidb/ingest.py: gen_engine (password keyring), proc_col_req *)
(* (additive schema migration from a change-request table) and             *)
(* updateSQLschema (index / foreign-key application and comment            *)
(* reconciliation).  One call of one function runs at a time (the code is   *)
(* single-threaded and synchronous); `op` names the function being run.    *)
(*                                                                         *)
(* The MySQL server is an external collaborator.  It is modelled by what   *)
(* it stores (tables, ordered columns with type and comment, indexes,      *)
(* foreign keys) and by the statements it rejects because a name does not  *)
(* resolve, a name is duplicated, or a string literal does not parse.      *)
(***************************************************************************)
EXTENDS Integers, Sequences, FiniteSets, TLC

VARIABLES
    op,          \* the function being run
    pc,          \* position inside it
    outcome,     \* "running", "ok", or the name of the exception raised
    db,          \* the live database: table name -> table
    db0,         \* the database when the current run started
    log,         \* statements sent with connection.execute in this run
    connOpened,  \* engine.connect() has been called in this run
    \* ---- gen_engine
    keyring,     \* secret store: key -> password or NoPassword
    keyring0,    \* the secret store when the current call started
    ge,          \* locals of gen_engine
    calls,       \* number of gen_engine calls made
    \* ---- proc_col_req
    req,         \* the input file: extension, header set, rows as read
    data,        \* rows after defaulting and normalisation
    pl,          \* locals of proc_col_req
    run,         \* number of the current run of the same request
    prevLog,     \* the log of the previous run of the same request
    \* ---- updateSQLschema
    schema,      \* the schema description rows (filtered at line 310)
    schema0,     \* the schema description as passed in
    ul,          \* locals of updateSQLschema
    warnings     \* warnings.warn calls made

vars == <<op, pc, outcome, db, db0, log, connOpened, keyring, keyring0, ge,
          calls, req, data, pl, run, prevLog, schema, schema0, ul, warnings>>

dbVars == <<db, db0, log, connOpened>>
engineVars == <<keyring, keyring0, ge, calls>>
procVars == <<req, data, pl, run, prevLog>>
schemaVars == <<schema, schema0, ul, warnings>>

---------------------------------------------------------------------------
\* Bounds of the model.

\* rows in a change-request file
MaxRows == 2
\* rows in a schema description
MaxSchemaRows == 2
\* runs of proc_col_req with the same request
MaxRuns == 2
\* calls of gen_engine
MaxCalls == 2

Tables == {"T1", "T2"}
Cols == {"a", "b"}
NA == "NA"

\* Characters of a comment text: a plain character, a double quote, a backslash.
DQ == "dq"
BS == "bs"
CommentTexts == {<<"x">>, <<"y">>, <<BS, "x">>, <<DQ, DQ>>, <<DQ>>}
Description == <<"x">>
NoComment == <<>>

---------------------------------------------------------------------------
\* Helpers on sequences.

Range(s) == {s[i] : i \in 1..Len(s)}

SeqsUpTo(S, n) == UNION {[1..k -> S] : k \in 0..n}

IsDuplicateFree(s) == \A i, j \in 1..Len(s) : s[i] = s[j] => i = j

---------------------------------------------------------------------------
\* Statement text.  A statement is a record; its fields are the parts the
\* f-strings interpolate.

\* f'... COMMENT "{text}"' : the text is pasted between two double quotes.
CommentLiteral(text) == <<DQ>> \o text \o <<DQ>>

\* ingest.py 124-127
AddColumnStmt(t, row) ==
    [kind |-> "ADD COLUMN", table |-> t, col |-> row.DB_COLNAME,
     type |-> row.SQL_DATATYPE, literal |-> CommentLiteral(row.DESCRIPTION)]

\* ingest.py 149-155
CreateTableStmt(t, rows) ==
    [kind |-> "CREATE TABLE", table |-> t,
     coldefs |-> [i \in 1..Len(rows) |->
                    [name |-> rows[i].DB_COLNAME, type |-> rows[i].SQL_DATATYPE,
                     literal |-> CommentLiteral(rows[i].DESCRIPTION)]]]

\* A faulty add_indexes, one statement per column; C9 must tell it apart.
AddIndexStmtsPerColumn(t, indexes) ==
    [i \in 1..Len(indexes) |->
        [kind |-> "ADD INDEX", table |-> t, cols |-> <<indexes[i]>>]]

\* ingest.py 233-235 : one statement naming all the columns
add_indexes(t, indexes) ==
    << [kind |-> "ADD INDEX", table |-> t, cols |-> indexes] >>

\* ingest.py 249-256 : zip(cols, foreignkeys), one statement per pair
add_foreignkeys(t, cols, foreignkeys) ==
    [i \in 1..(IF Len(cols) < Len(foreignkeys) THEN Len(cols) ELSE Len(foreignkeys)) |->
        [kind |-> "ADD FOREIGN KEY", table |-> t, col |-> cols[i],
         ref |-> foreignkeys[i], onDelete |-> "NO ACTION", onUpdate |-> "NO ACTION"]]

\* A faulty ChangeStmt that rewrites the type; C7 must tell it apart.
ChangeStmtRetyped(t, key, d, text) ==
    [kind |-> "CHANGE COLUMN", table |-> t, col |-> key, newname |-> d.name,
     type |-> "TEXT", literal |-> CommentLiteral(text)]

\* ingest.py 321-324 : CHANGE `key` {d} COMMENT "{comment}", d being the
\* column's own definition line (name, type, nullability)
ChangeStmt(t, key, d, text) ==
    [kind |-> "CHANGE COLUMN", table |-> t, col |-> key, newname |-> d.name,
     type |-> d.type, literal |-> CommentLiteral(text)]

---------------------------------------------------------------------------
\* The database server.

NoTable == [exists |-> FALSE, cols |-> <<>>, indexes |-> <<>>, fks |-> <<>>]

ColNames(tbl) == {tbl.cols[i].name : i \in 1..Len(tbl.cols)}

ColOf(tbl, c) == tbl.cols[CHOOSE i \in 1..Len(tbl.cols) : tbl.cols[i].name = c]

\* The server's reading of a double-quoted string literal (default SQL mode):
\* a backslash takes the next character literally, two double quotes stand
\* for one, a lone double quote ends the literal.  `body` is what follows the
\* opening quote; the result is the text, or the literal does not parse when
\* anything but the end of the statement follows the closing quote.
RECURSIVE ReadLiteral(_)
ReadLiteral(body) ==
    IF body = <<>> THEN [ok |-> FALSE, text |-> <<>>]
    ELSE IF Head(body) = BS THEN
        IF Len(body) < 2 THEN [ok |-> FALSE, text |-> <<>>]
        ELSE LET rest == ReadLiteral(SubSeq(body, 3, Len(body)))
             IN  [ok |-> rest.ok, text |-> <<body[2]>> \o rest.text]
    ELSE IF Head(body) = DQ THEN
        IF Len(body) >= 2 /\ body[2] = DQ THEN
            LET rest == ReadLiteral(SubSeq(body, 3, Len(body)))
            IN  [ok |-> rest.ok, text |-> <<DQ>> \o rest.text]
        ELSE [ok |-> Len(body) = 1, text |-> <<>>]
    ELSE LET rest == ReadLiteral(Tail(body))
         IN  [ok |-> rest.ok, text |-> <<Head(body)>> \o rest.text]

ParseLiteral(lit) ==
    IF lit = <<>> \/ Head(lit) # DQ THEN [ok |-> FALSE, text |-> <<>>]
    ELSE ReadLiteral(Tail(lit))

\* Whether the server accepts statement s in database d.
Accepts(d, s) ==
    LET tbl == d[s.table] IN
    CASE s.kind = "ADD COLUMN" ->
            /\ tbl.exists
            /\ s.col \notin ColNames(tbl)
            /\ ParseLiteral(s.literal).ok
      [] s.kind = "CREATE TABLE" ->
            /\ ~tbl.exists
            /\ Len(s.coldefs) > 0
            /\ IsDuplicateFree([i \in 1..Len(s.coldefs) |-> s.coldefs[i].name])
            /\ \A i \in 1..Len(s.coldefs) : ParseLiteral(s.coldefs[i].literal).ok
      [] s.kind = "ADD INDEX" ->
            /\ tbl.exists
            /\ Len(s.cols) > 0
            /\ Range(s.cols) \subseteq ColNames(tbl)
            /\ IsDuplicateFree(s.cols)
      [] s.kind = "ADD FOREIGN KEY" ->
            /\ tbl.exists
            /\ s.col \in ColNames(tbl)
      [] s.kind = "CHANGE COLUMN" ->
            /\ tbl.exists
            /\ s.col \in ColNames(tbl)
            /\ ParseLiteral(s.literal).ok
      [] OTHER -> FALSE

\* The table after an accepted statement.
Applied(tbl, s) ==
    CASE s.kind = "ADD COLUMN" ->
            [tbl EXCEPT !.cols = Append(@, [name |-> s.col, type |-> s.type,
                                            comment |-> ParseLiteral(s.literal).text])]
      [] s.kind = "CREATE TABLE" ->
            [exists |-> TRUE,
             cols |-> [i \in 1..Len(s.coldefs) |->
                         [name |-> s.coldefs[i].name, type |-> s.coldefs[i].type,
                          comment |-> ParseLiteral(s.coldefs[i].literal).text]],
             indexes |-> <<>>, fks |-> <<>>]
      [] s.kind = "ADD INDEX" ->
            [tbl EXCEPT !.indexes = Append(@, s.cols)]
      [] s.kind = "ADD FOREIGN KEY" ->
            [tbl EXCEPT !.fks = Append(@, [col |-> s.col, ref |-> s.ref])]
      [] s.kind = "CHANGE COLUMN" ->
            [tbl EXCEPT !.cols =
                [i \in 1..Len(@) |->
                    IF @[i].name = s.col
                    THEN [name |-> s.newname, type |-> s.type,
                          comment |-> ParseLiteral(s.literal).text]
                    ELSE @[i]]]
      [] OTHER -> tbl

\* connection.execute on each statement of `stmts` in turn, stopping at the
\* first one the server rejects (the exception propagates).  `sent` are the
\* statements sent, the rejected one included.
RECURSIVE Execute(_, _)
Execute(d, stmts) ==
    IF stmts = <<>> THEN [ok |-> TRUE, db |-> d, sent |-> <<>>]
    ELSE LET s == Head(stmts) IN
         IF ~Accepts(d, s) THEN [ok |-> FALSE, db |-> d, sent |-> <<s>>]
         ELSE LET rest == Execute([d EXCEPT ![s.table] = Applied(@, s)], Tail(stmts))
              IN  [ok |-> rest.ok, db |-> rest.db, sent |-> <<s>> \o rest.sent]


---------------------------------------------------------------------------
\* Values the variables of a function that is not running keep.

EmptyDb == [t \in Tables |-> NoTable]
IdleGe == [username |-> "u1", server |-> "s1", passwd |-> "None",
           newpass |-> FALSE, prompted |-> FALSE, tested |-> FALSE]
NoReq == [ext |-> "csv", columns |-> {}, rows |-> <<>>]
IdlePl == [existing |-> {}, existing_keys |-> [t \in Tables |-> {}],
           todo |-> {}, newtodo |-> {}, finished |-> {}, failedTable |-> NA]
IdleUl == [tablename |-> "T1", keys |-> <<>>, defs |-> <<>>, i |-> 0,
           constrained |-> FALSE]

DbIdle ==
    /\ db = EmptyDb /\ db0 = EmptyDb /\ log = <<>> /\ connOpened = FALSE
EngineIdle ==
    /\ keyring = [k \in {} |-> "None"] /\ keyring0 = keyring
    /\ ge = IdleGe /\ calls = 0
ProcIdle ==
    /\ req = NoReq /\ data = <<>> /\ pl = IdlePl /\ run = 0 /\ prevLog = <<>>
SchemaIdle ==
    /\ schema = <<>> /\ schema0 = <<>> /\ ul = IdleUl /\ warnings = <<>>

Raise(exc) == pc' = "done" /\ outcome' = exc

---------------------------------------------------------------------------
\* gen_engine (ingest.py 11-46)

Users == {"u1", "u2"}
Servers == {"s1"}
Passwords == {"p1", "p2"}
NoPassword == "None"
Keys == Servers \X Users
\* The password the database server accepts for each user.
ServerPassword == [u \in Users |-> IF u = "u1" THEN "p1" ELSE "p2"]

GeKey == <<ge.server, ge.username>>

InitEngine ==
    /\ op = "gen_engine" /\ pc = "idle" /\ outcome = "running"
    /\ keyring \in [Keys -> Passwords \cup {NoPassword}]
    /\ keyring0 = keyring
    /\ ge = IdleGe /\ calls = 0
    /\ DbIdle /\ ProcIdle /\ SchemaIdle

\* 26-31 : look the password up; none stored means it will be asked for
GE_Lookup(u, s) ==
    /\ op = "gen_engine" /\ pc \in {"idle", "done"} /\ calls < MaxCalls
    /\ calls' = calls + 1
    /\ keyring0' = keyring
    /\ LET passwd == keyring[<<s, u>>] IN
       /\ ge' = [username |-> u, server |-> s, passwd |-> passwd,
                 newpass |-> (passwd = NoPassword), prompted |-> FALSE,
                 tested |-> FALSE]
       /\ pc' = IF passwd = NoPassword THEN "getpass" ELSE "connect"
    /\ outcome' = "running"
    /\ UNCHANGED <<op, keyring, dbVars, procVars, schemaVars>>

\* A faulty GE_Getpass that saves the password as soon as it is typed; C10
\* must tell it apart.
GE_GetpassAndStore(p) ==
    /\ op = "gen_engine" /\ pc = "getpass"
    /\ ge' = [ge EXCEPT !.passwd = p, !.prompted = TRUE]
    /\ keyring' = [keyring EXCEPT ![<<ge.server, ge.username>>] = p]
    /\ pc' = "connect"
    /\ UNCHANGED <<op, outcome, keyring0, calls, dbVars, procVars, schemaVars>>

\* 29 : getpass.getpass
GE_Getpass(p) ==
    /\ op = "gen_engine" /\ pc = "getpass"
    /\ ge' = [ge EXCEPT !.passwd = p, !.prompted = TRUE]
    /\ pc' = "connect"
    /\ UNCHANGED <<op, outcome, keyring, keyring0, calls, dbVars, procVars, schemaVars>>

\* 33-39 : engine.connect() with the password, which the server accepts
GE_Connect ==
    /\ op = "gen_engine" /\ pc = "connect"
    /\ ge.passwd = ServerPassword[ge.username]
    /\ pc' = "test"
    /\ UNCHANGED <<op, outcome, ge, keyring, keyring0, calls, dbVars, procVars, schemaVars>>

\* 39 : engine.connect() raises (wrong password, or the server is unreachable)
GE_ConnectFails ==
    /\ op = "gen_engine" /\ pc = "connect"
    /\ Raise("OperationalError")
    /\ UNCHANGED <<op, ge, keyring, keyring0, calls, dbVars, procVars, schemaVars>>

\* 40-41 : SHOW TABLES succeeds, the connection is closed
GE_Test ==
    /\ op = "gen_engine" /\ pc = "test"
    /\ ge' = [ge EXCEPT !.tested = TRUE]
    /\ pc' = "store"
    /\ UNCHANGED <<op, outcome, keyring, keyring0, calls, dbVars, procVars, schemaVars>>

\* 40 : SHOW TABLES raises
GE_TestFails ==
    /\ op = "gen_engine" /\ pc = "test"
    /\ Raise("OperationalError")
    /\ UNCHANGED <<op, ge, keyring, keyring0, calls, dbVars, procVars, schemaVars>>

\* 43-44 : what the secret store holds after the call
StoreIfNew(store, g) ==
    IF g.newpass THEN [store EXCEPT ![<<g.server, g.username>>] = g.passwd]
    ELSE store

\* 43-46
GE_Return ==
    /\ op = "gen_engine" /\ pc = "store"
    /\ keyring' = StoreIfNew(keyring, ge)
    /\ pc' = "done" /\ outcome' = "ok"
    /\ UNCHANGED <<op, ge, keyring0, calls, dbVars, procVars, schemaVars>>

NextEngine ==
    \/ \E u \in Users, s \in Servers : GE_Lookup(u, s)
    \/ \E p \in Passwords : GE_Getpass(p)
    \/ GE_Connect
    \/ GE_ConnectFails
    \/ GE_Test
    \/ GE_TestFails
    \/ GE_Return

SpecEngine == InitEngine /\ [][NextEngine]_vars


---------------------------------------------------------------------------
\* proc_col_req (ingest.py 49-170)

\* 68-78
expected_cols == {"MY_COLNAME", "DB_COLNAME", "TABLE", "UNITS", "NEW_KEY",
                  "DESCRIPTION", "SQL_DATATYPE", "INDEX", "FOREIGNKEY"}
\* 79-86
reqcols == {"MY_COLNAME", "DB_COLNAME", "TABLE", "NEW_KEY", "SQL_DATATYPE", "INDEX"}

\* 61-66 : the extensions read
SupportedExt == {"csv", "xlsx", "xls"}

\* ---- the inputs the model draws
Extensions == SupportedExt \cup {"txt"}
Headers == {expected_cols, expected_cols \ {"UNITS"}, expected_cols \cup {"NOTES"}}
FkSpec == "Ref(id)"

MkRow(my, dbc, t, new, type, idx, fk) ==
    [MY_COLNAME |-> my, DB_COLNAME |-> dbc, TABLE |-> t, NEW_KEY |-> new,
     SQL_DATATYPE |-> type, INDEX |-> idx, FOREIGNKEY |-> fk,
     DESCRIPTION |-> Description]

\* rows with every field filled in: plain, indexed, with a foreign key
FullRows ==
    {MkRow(c, c, t, new, "INT", "False", NA) : c \in Cols, t \in Tables, new \in {"True", "False"}}
    \cup {MkRow(c, c, t, "True", "STRING", "True", NA) : c \in Cols, t \in Tables}
    \cup {MkRow(c, c, t, "True", "INT", NA, FkSpec) : c \in Cols, t \in Tables}

\* rows with blank cells
BlankRows ==
    { MkRow("b", NA, "T1", "True", "INT", "False", NA),
      MkRow("a", "b", "T1", NA, "INT", NA, NA),
      MkRow("b", NA, "T1", "False", "INT", "False", NA),
      MkRow(NA, NA, "T1", "True", "INT", "False", NA),
      MkRow("b", "b", NA, "True", "INT", "False", NA),
      MkRow("b", "b", "T1", "True", NA, "False", NA) }

RowSet == FullRows \cup BlankRows

\* live tables a run may start from (columns are in table order)
LiveCol(c) == [name |-> c, type |-> IF c = "a" THEN "INT" ELSE "TEXT", comment |-> NoComment]
LiveTable(colseq) ==
    [exists |-> TRUE, cols |-> [i \in 1..Len(colseq) |-> LiveCol(colseq[i])],
     indexes |-> <<>>, fks |-> <<>>]
ProcTables == {NoTable, LiveTable(<<"a">>)}

\* ---- 92-98 : defaulting and normalisation of one row
IsTrue(v) == v = "True"

\* 92-93 : a blank NEW_KEY or INDEX cell becomes False
DefaultBool(v) == IF v = NA THEN "False" ELSE v

\* A faulty DefaultDbColname that fills the blank on every row; C8 must tell
\* it apart.
DefaultDbColnameAllRows(row, new) ==
    IF row.DB_COLNAME = NA THEN row.MY_COLNAME ELSE row.DB_COLNAME

\* 95-96 : a blank DB_COLNAME takes MY_COLNAME on the rows whose NEW_KEY is true
DefaultDbColname(row, new) ==
    IF IsTrue(new) /\ row.DB_COLNAME = NA THEN row.MY_COLNAME ELSE row.DB_COLNAME

\* 98
NormalType(ty) == IF ty = "STRING" THEN "TEXT" ELSE ty

Normalised(row) ==
    LET new == DefaultBool(row.NEW_KEY) IN
    [row EXCEPT !.NEW_KEY = new,
                !.INDEX = DefaultBool(row.INDEX),
                !.DB_COLNAME = DefaultDbColname(row, new),
                !.SQL_DATATYPE = NormalType(row.SQL_DATATYPE)]

\* 100 : data[reqcols].isna().values.any()
MissingEntries(rows) == \E i \in 1..Len(rows), f \in reqcols : rows[i][f] = NA

\* 102 : data["TABLE"].unique()
ReqTables(rows) == {rows[i].TABLE : i \in 1..Len(rows)}

\* 116 / 147 : data.loc[data["TABLE"] == t]
RowsOf(rows, t) == SelectSeq(rows, LAMBDA r : r.TABLE = t)

\* A faulty NewKeys that ignores the live columns; C6 must tell it apart.
NewKeysIgnoringLive(tmp, existing) == tmp

\* 117 : the requested rows whose column the live table does not have
NewKeys(tmp, existing) == SelectSeq(tmp, LAMBDA r : r.DB_COLNAME \notin existing)

\* Faulty forms of AllMarkedNew: no check at all (C1 must tell it apart), and
\* .any() for .all() (C2 must tell it apart).
AssertionSkipped(newkeys) == TRUE

AnyMarkedNew(newkeys) == \E i \in 1..Len(newkeys) : IsTrue(newkeys[i].NEW_KEY)

\* 118 : newkeys["NEW_KEY"].all()
AllMarkedNew(newkeys) == \A i \in 1..Len(newkeys) : IsTrue(newkeys[i].NEW_KEY)

\* 131-142 / 159-170 : the index and foreign-key statements of table t
ConstraintStmts(t, tmp) ==
    LET idxrows == SelectSeq(tmp, LAMBDA r : IsTrue(r.INDEX))
        indexes == [i \in 1..Len(idxrows) |-> idxrows[i].DB_COLNAME]
        fkrows == SelectSeq(tmp, LAMBDA r : r.FOREIGNKEY # NA)
    IN  (IF Len(indexes) > 0 THEN add_indexes(t, indexes) ELSE <<>>)
        \o (IF Len(fkrows) > 0
            THEN add_foreignkeys(t, [i \in 1..Len(fkrows) |-> fkrows[i].DB_COLNAME],
                                 [i \in 1..Len(fkrows) |-> fkrows[i].FOREIGNKEY])
            ELSE <<>>)

\* 123-142 : the statements for an existing table, in the order they are sent
ExistingStmts(t, tmp, newkeys) ==
    [i \in 1..Len(newkeys) |-> AddColumnStmt(t, newkeys[i])] \o ConstraintStmts(t, tmp)

\* 149-170 : the statements for a new table
NewStmts(t, tmp) == <<CreateTableStmt(t, tmp)>> \o ConstraintStmts(t, tmp)

InitProc ==
    /\ op = "proc_col_req" /\ pc = "read" /\ outcome = "running"
    /\ db \in [Tables -> ProcTables]
    /\ db0 = db /\ log = <<>> /\ connOpened = FALSE
    /\ req \in ([ext : {"csv"}, columns : {expected_cols}, rows : SeqsUpTo(RowSet, MaxRows)]
                \cup [ext : Extensions, columns : Headers, rows : {<<MkRow("a", "a", "T1", "True", "INT", "False", NA)>>}])
    /\ data = <<>> /\ pl = IdlePl /\ run = 1 /\ prevLog = <<>>
    /\ EngineIdle /\ SchemaIdle

\* 60-66 : the file is read when its extension is supported
P_Read ==
    /\ op = "proc_col_req" /\ pc = "read"
    /\ IF req.ext \in SupportedExt
       THEN pc' = "validate" /\ UNCHANGED outcome
       ELSE Raise("NotImplementedError")
    /\ UNCHANGED <<op, dbVars, engineVars, procVars, schemaVars>>

\* 88-100 : the header check, the defaulting, the required-entries check
P_Validate ==
    /\ op = "proc_col_req" /\ pc = "validate"
    /\ LET rows == [i \in 1..Len(req.rows) |-> Normalised(req.rows[i])] IN
       IF req.columns # expected_cols
       THEN Raise("AssertionError: columns") /\ UNCHANGED data
       ELSE IF MissingEntries(rows)
       THEN Raise("AssertionError: missing entries") /\ data' = rows
       ELSE pc' = "connect" /\ data' = rows /\ UNCHANGED outcome
    /\ UNCHANGED <<op, dbVars, engineVars, req, pl, run, prevLog, schemaVars>>

\* 102-113 and 144 : connect, list the tables, read the existing tables' columns
P_Connect ==
    /\ op = "proc_col_req" /\ pc = "connect"
    /\ connOpened' = TRUE
    /\ LET tables == {t \in Tables : db[t].exists}
           existing == ReqTables(data) \cap tables
       IN  pl' = [existing |-> existing,
                  existing_keys |-> [t \in Tables |-> IF t \in existing THEN ColNames(db[t]) ELSE {}],
                  todo |-> existing,
                  newtodo |-> ReqTables(data) \ existing,
                  finished |-> {},
                  failedTable |-> NA]
    /\ pc' = "tables"
    /\ UNCHANGED <<op, outcome, db, db0, log, engineVars, req, data, run, prevLog, schemaVars>>

\* 115-142 : one iteration of the loop over the existing tables (a list made
\* from a set: any order)
P_Existing(t) ==
    /\ op = "proc_col_req" /\ pc = "tables" /\ t \in pl.todo
    /\ LET tmp == RowsOf(data, t)
           newkeys == NewKeys(tmp, pl.existing_keys[t])
           res == Execute(db, ExistingStmts(t, tmp, newkeys))
       IN  IF ~AllMarkedNew(newkeys)
           THEN /\ Raise("AssertionError: not marked as new")
                /\ pl' = [pl EXCEPT !.failedTable = t]
                /\ UNCHANGED <<db, log>>
           ELSE /\ db' = res.db
                /\ log' = log \o res.sent
                /\ IF res.ok
                   THEN /\ pl' = [pl EXCEPT !.todo = @ \ {t}, !.finished = @ \cup {t}]
                        /\ UNCHANGED <<pc, outcome>>
                   ELSE /\ Raise("DatabaseError")
                        /\ pl' = [pl EXCEPT !.failedTable = t]
    /\ UNCHANGED <<op, db0, connOpened, engineVars, req, data, run, prevLog, schemaVars>>

\* 146-170 : one iteration of the loop over the new tables, entered once the
\* loop over the existing tables has ended
P_New(t) ==
    /\ op = "proc_col_req" /\ pc = "tables" /\ pl.todo = {} /\ t \in pl.newtodo
    /\ LET res == Execute(db, NewStmts(t, RowsOf(data, t))) IN
       /\ db' = res.db
       /\ log' = log \o res.sent
       /\ IF res.ok
          THEN /\ pl' = [pl EXCEPT !.newtodo = @ \ {t}, !.finished = @ \cup {t}]
               /\ UNCHANGED <<pc, outcome>>
          ELSE /\ Raise("DatabaseError")
               /\ pl' = [pl EXCEPT !.failedTable = t]
    /\ UNCHANGED <<op, db0, connOpened, engineVars, req, data, run, prevLog, schemaVars>>

\* 170 : both loops have ended
P_Return ==
    /\ op = "proc_col_req" /\ pc = "tables" /\ pl.todo = {} /\ pl.newtodo = {}
    /\ pc' = "done" /\ outcome' = "ok"
    /\ UNCHANGED <<op, dbVars, engineVars, procVars, schemaVars>>

\* The same request file is processed again after a run that completed.
P_Rerun ==
    /\ op = "proc_col_req" /\ pc = "done" /\ outcome = "ok" /\ run < MaxRuns
    /\ run' = run + 1
    /\ prevLog' = log
    /\ log' = <<>> /\ db0' = db /\ connOpened' = FALSE
    /\ data' = <<>> /\ pl' = IdlePl
    /\ pc' = "read" /\ outcome' = "running"
    /\ UNCHANGED <<op, db, engineVars, req, schemaVars>>

NextProc ==
    \/ P_Read
    \/ P_Validate
    \/ P_Connect
    \/ \E t \in Tables : P_Existing(t)
    \/ \E t \in Tables : P_New(t)
    \/ P_Return
    \/ P_Rerun

SpecProc == InitProc /\ [][NextProc]_vars


---------------------------------------------------------------------------
\* updateSQLschema (ingest.py 259-325)

\* ---- the inputs the model draws
OldComment == <<"o">>

MkSchemaRow(c, text, idx, fk) ==
    [Column |-> c, Comments |-> text, Index |-> idx, ForeignKey |-> fk]

SchemaRowSet ==
    {MkSchemaRow(c, text, 0, NA) : c \in Cols, text \in CommentTexts}
    \cup {MkSchemaRow(c, <<"x">>, 1, NA) : c \in Cols}
    \cup {MkSchemaRow(c, <<"x">>, 0, FkSpec) : c \in Cols}

\* live tables with one or two columns, each with or without a comment
SchemaTables ==
    {[LiveTable(colseq) EXCEPT !.cols =
         [i \in 1..Len(colseq) |-> [@[i] EXCEPT !.comment = IF i \in commented THEN OldComment ELSE NoComment]]] :
       colseq \in {<<"a">>, <<"b">>, <<"a", "b">>, <<"b", "a">>}, commented \in SUBSET {1, 2}}

\* ---- 281-284 : the lines of SHOW CREATE TABLE, as the server prints them
ShowCreateTable(t, tbl) ==
    <<[kind |-> "create", name |-> t, type |-> "", comment |-> NoComment]>>
    \o [i \in 1..Len(tbl.cols) |->
          [kind |-> "column", name |-> tbl.cols[i].name, type |-> tbl.cols[i].type,
           comment |-> tbl.cols[i].comment]]
    \o [i \in 1..Len(tbl.indexes) |->
          [kind |-> "key", name |-> tbl.indexes[i][1], type |-> "", comment |-> NoComment]]
    \o [i \in 1..Len(tbl.fks) |->
          [kind |-> "constraint", name |-> tbl.fks[i].col, type |-> "", comment |-> NoComment]]
    \o <<[kind |-> "engine", name |-> "", type |-> "", comment |-> NoComment]>>

\* 292 : "COMMENT" in r -- the line of a column that carries a comment
HasCommentWord(line) == line.comment # NoComment

\* 286, 294 : p.match(r) -- only a column's line starts with a back-quoted name
MatchesColumn(line) == line.kind = "column"

\* 288-297 : the lines kept, in order
KeptLines(lines) == SelectSeq(lines, LAMBDA r : ~HasCommentWord(r) /\ MatchesColumn(r))

SchemaCols(sch) == {sch[i].Column : i \in 1..Len(sch)}

\* 268-279 : the index and foreign-key statements
SchemaConstraintStmts(t, sch) ==
    LET idxrows == SelectSeq(sch, LAMBDA r : r.Index = 1)
        indexes == [i \in 1..Len(idxrows) |-> idxrows[i].Column]
        fkrows == SelectSeq(sch, LAMBDA r : r.ForeignKey # NA)
    IN  (IF Len(indexes) > 0 THEN add_indexes(t, indexes) ELSE <<>>)
        \o (IF Len(fkrows) > 0
            THEN add_foreignkeys(t, [i \in 1..Len(fkrows) |-> fkrows[i].Column],
                                 [i \in 1..Len(fkrows) |-> fkrows[i].ForeignKey])
            ELSE <<>>)

\* 323 : schema.loc[schema["Column"] == key, "Comments"].values
CommentsFor(sch, key) ==
    LET rows == SelectSeq(sch, LAMBDA r : r.Column = key)
    IN  [i \in 1..Len(rows) |-> rows[i].Comments]

InitSchema ==
    /\ op = "updateSQLschema" /\ pc = "constraints" /\ outcome = "running"
    /\ \E tbl \in SchemaTables : db = [EmptyDb EXCEPT !["T1"] = tbl]
    /\ db0 = db /\ log = <<>> /\ connOpened = TRUE
    /\ schema \in SeqsUpTo(SchemaRowSet, MaxSchemaRows)
    /\ schema0 = schema
    /\ ul = IdleUl /\ warnings = <<>>
    /\ EngineIdle /\ ProcIdle

\* 268-279
U_Constraints ==
    /\ op = "updateSQLschema" /\ pc = "constraints"
    /\ LET res == Execute(db, SchemaConstraintStmts(ul.tablename, schema)) IN
       /\ db' = res.db
       /\ log' = log \o res.sent
       /\ IF res.ok
          THEN pc' = "describe" /\ ul' = [ul EXCEPT !.constrained = TRUE] /\ UNCHANGED outcome
          ELSE Raise("DatabaseError") /\ UNCHANGED ul
    /\ UNCHANGED <<op, db0, connOpened, engineVars, procVars, schema, schema0, warnings>>

\* 281-297
U_Describe ==
    /\ op = "updateSQLschema" /\ pc = "describe"
    /\ LET kept == KeptLines(ShowCreateTable(ul.tablename, db[ul.tablename])) IN
       ul' = [ul EXCEPT !.keys = [i \in 1..Len(kept) |-> kept[i].name],
                        !.defs = [i \in 1..Len(kept) |-> [name |-> kept[i].name, type |-> kept[i].type]],
                        !.i = 1]
    /\ pc' = "warn"
    /\ UNCHANGED <<op, outcome, dbVars, engineVars, procVars, schema, schema0, warnings>>

\* 299-318 : at most one warning for each direction of the mismatch, each
\* naming all the columns concerned
U_Warn ==
    /\ op = "updateSQLschema" /\ pc = "warn"
    /\ LET missing_from_schema == Range(ul.keys) \ SchemaCols(schema)
           missing_from_table == SchemaCols(schema) \ Range(ul.keys)
       IN  /\ warnings' = warnings
                \o (IF missing_from_schema # {}
                    THEN <<[about |-> "missing from schema", cols |-> missing_from_schema]>>
                    ELSE <<>>)
                \o (IF missing_from_table # {}
                    THEN <<[about |-> "missing from table", cols |-> missing_from_table]>>
                    ELSE <<>>)
           /\ schema' = IF missing_from_table # {}
                        THEN SelectSeq(schema, LAMBDA r : r.Column \notin missing_from_table)
                        ELSE schema
    /\ pc' = "change"
    /\ UNCHANGED <<op, outcome, dbVars, engineVars, procVars, schema0, ul>>

\* 320-325 : one iteration of the loop over zip(keys, defs)
U_Change ==
    /\ op = "updateSQLschema" /\ pc = "change" /\ ul.i <= Len(ul.keys)
    /\ LET key == ul.keys[ul.i]
           texts == CommentsFor(schema, key)
       IN  IF texts = <<>>
           THEN Raise("IndexError") /\ UNCHANGED <<db, log, ul>>
           ELSE LET res == Execute(db, <<ChangeStmt(ul.tablename, key, ul.defs[ul.i], texts[1])>>) IN
                /\ db' = res.db
                /\ log' = log \o res.sent
                /\ IF res.ok
                   THEN ul' = [ul EXCEPT !.i = @ + 1] /\ UNCHANGED <<pc, outcome>>
                   ELSE Raise("DatabaseError") /\ UNCHANGED ul
    /\ UNCHANGED <<op, db0, connOpened, engineVars, procVars, schema, schema0, warnings>>

\* 325 : the loop has ended
U_Return ==
    /\ op = "updateSQLschema" /\ pc = "change" /\ ul.i > Len(ul.keys)
    /\ pc' = "done" /\ outcome' = "ok"
    /\ UNCHANGED <<op, dbVars, engineVars, procVars, schemaVars>>

NextSchema ==
    \/ U_Constraints
    \/ U_Describe
    \/ U_Warn
    \/ U_Change
    \/ U_Return

SpecSchema == InitSchema /\ [][NextSchema]_vars

---------------------------------------------------------------------------
\* Any one of the functions.

Init == InitEngine \/ InitProc \/ InitSchema

Next == NextEngine \/ NextProc \/ NextSchema

Spec == Init /\ [][Next]_vars


---------------------------------------------------------------------------
\* Properties.

Kinds == {"ADD COLUMN", "CREATE TABLE", "ADD INDEX", "ADD FOREIGN KEY", "CHANGE COLUMN"}

StmtsFor(t) == SelectSeq(log, LAMBDA s : s.table = t)
StmtsOfKind(t, k) == SelectSeq(log, LAMBDA s : s.table = t /\ s.kind = k)

\* Table t existed when the run started and the request names, for t, a
\* column that t did not have and that is not marked NEW_KEY.
Offending(t) ==
    /\ db0[t].exists
    /\ \E i \in 1..Len(data) :
          /\ data[i].TABLE = t
          /\ data[i].DB_COLNAME \notin ColNames(db0[t])
          /\ ~IsTrue(data[i].NEW_KEY)

Validated == op = "proc_col_req" /\ pc \in {"tables", "done"} /\ connOpened

\* C1 as stated: if some requested column with NEW_KEY false does not exist
\* in its target live table, the run fails and, when it has failed, no
\* statement at all has been executed for any table of the request.
C1_NoStatementAtAll ==
    (Validated /\ pc = "done" /\ \E t \in Tables : Offending(t))
        => (outcome # "ok" /\ log = <<>>)

\* C1 as amended: if some requested column with NEW_KEY false does not exist
\* in its existing target table, the run never completes, no statement is ever
\* executed against a table with such a column, and no CREATE TABLE is ever
\* executed; the only statements executed before the failure are those of
\* other existing tables, taken earlier by the loop.
C1_NoStatementForOffendingOrNewTables ==
    (Validated /\ \E t \in Tables : Offending(t))
        => /\ pc = "done" => outcome # "ok"
           /\ \A i \in 1..Len(log) :
                 /\ log[i].kind # "CREATE TABLE"
                 /\ log[i].table \in pl.existing
                 /\ ~Offending(log[i].table)

\* The run failed on the assertion after statements for another table ran.
C1_Witness ==
    /\ Validated /\ pc = "done"
    /\ outcome = "AssertionError: not marked as new"
    /\ Offending(pl.failedTable)
    /\ log # <<>>

\* C2: for each existing table t, if a requested column absent from t is not
\* marked NEW_KEY, the run fails with the assertion at t's iteration, before
\* any ADD COLUMN, ADD INDEX or ADD FOREIGN KEY for t is executed.
C2_FailsBeforeAnyStatementForTable ==
    Validated =>
        \A t \in pl.existing :
            Offending(t) =>
                /\ StmtsFor(t) = <<>>
                /\ db[t] = db0[t]
                /\ t \notin pl.finished
                /\ pc = "done" => outcome # "ok"
                /\ pl.failedTable = t => outcome = "AssertionError: not marked as new"

\* The assertion failed for a table that also had a column marked new to add.
C2_Witness ==
    /\ Validated /\ pc = "done"
    /\ outcome = "AssertionError: not marked as new"
    /\ Offending(pl.failedTable)
    /\ \E i \in 1..Len(data) :
          /\ data[i].TABLE = pl.failedTable
          /\ data[i].DB_COLNAME \notin ColNames(db0[pl.failedTable])
          /\ IsTrue(data[i].NEW_KEY)

\* C6 as stated: a second run of the same request, after a run that added
\* columns, fails with the assertion.
C6_RerunFailsAssertion ==
    (op = "proc_col_req" /\ run >= 2 /\ pc = "done"
        /\ \E i \in 1..Len(prevLog) : prevLog[i].kind = "ADD COLUMN")
        => outcome = "AssertionError: not marked as new"

\* C6 as amended: a second run of the same request after a run that completed
\* never fails the assertion (every requested column now exists); it executes
\* no ADD COLUMN and no CREATE TABLE, executes again exactly the ADD INDEX and
\* ADD FOREIGN KEY statements of the earlier run, and completes.
C6_RerunRepeatsConstraintsOnly ==
    (op = "proc_col_req" /\ run >= 2)
        => /\ outcome \in {"running", "ok"}
           /\ \A i \in 1..Len(log) : log[i].kind \in {"ADD INDEX", "ADD FOREIGN KEY"}
           /\ Range(log) \subseteq Range(prevLog)
           /\ pc = "done" =>
                 Range(log) = {s \in Range(prevLog) : s.kind \in {"ADD INDEX", "ADD FOREIGN KEY"}}

\* A second run completed after a first run that added a column and an index.
C6_Witness ==
    /\ op = "proc_col_req" /\ run = 2 /\ pc = "done" /\ outcome = "ok"
    /\ \E i \in 1..Len(prevLog) : prevLog[i].kind = "ADD COLUMN"
    /\ \E i \in 1..Len(log) : log[i].kind = "ADD INDEX"

\* C8 in the claim's words: what is left blank after defaulting.
RowLacksRequired(row) ==
    \/ row.MY_COLNAME = NA
    \/ row.TABLE = NA
    \/ row.SQL_DATATYPE = NA
    \/ (row.DB_COLNAME = NA /\ ~(row.NEW_KEY = "True" /\ row.MY_COLNAME # NA))

InputRejected ==
    \/ req.ext \notin {"csv", "xls", "xlsx"}
    \/ req.columns # expected_cols
    \/ \E i \in 1..Len(req.rows) : RowLacksRequired(req.rows[i])

\* C8: when the extension is unsupported, the header set is not the expected
\* one, or a row lacks a required entry after defaulting, the call fails
\* before the connection is opened and before any statement is executed, and
\* the database is unchanged.
C8_ValidationPrecedesDatabaseWork ==
    (op = "proc_col_req" /\ InputRejected)
        => /\ pc \in {"read", "validate", "done"}
           /\ ~connOpened
           /\ log = <<>>
           /\ db = db0
           /\ pc = "done" => outcome \in {"NotImplementedError", "AssertionError: columns",
                                          "AssertionError: missing entries"}

\* A request whose only defect is a blank DB_COLNAME on a row that is not new
\* has been rejected.
C8_Witness ==
    /\ op = "proc_col_req" /\ pc = "done"
    /\ outcome = "AssertionError: missing entries"
    /\ \E i \in 1..Len(req.rows) :
          /\ req.rows[i].DB_COLNAME = NA
          /\ req.rows[i].MY_COLNAME # NA
          /\ req.rows[i].NEW_KEY # "True"


\* ---- updateSQLschema

Target == ul.tablename

\* columns of the live table that carried no comment when the call started
Uncommented0 ==
    {db0[Target].cols[i].name : i \in {j \in 1..Len(db0[Target].cols) : db0[Target].cols[j].comment = NoComment}}

Commented0 == ColNames(db0[Target]) \ Uncommented0

ChangedCols == {log[i].col : i \in {j \in 1..Len(log) : log[j].kind = "CHANGE COLUMN"}}

WarningsAbout(what) == SelectSeq(warnings, LAMBDA w : w.about = what)

\* a schema description with no index flag, no foreign key and plain comments
PlainSchema ==
    \A i \in 1..Len(schema0) :
        /\ schema0[i].Index = 0
        /\ schema0[i].ForeignKey = NA
        /\ schema0[i].Comments \in {<<"x">>, <<"y">>}

\* C3: when the live table has uncommented columns the schema description does
\* not describe, there is one warning for each such column, no statement for
\* them, and the call completes, having issued the CHANGE COLUMN statement of
\* every uncommented column the schema description does describe.
C3_UndescribedColumnsAreSkipped ==
    (op = "updateSQLschema" /\ pc = "done" /\ PlainSchema
        /\ Uncommented0 \ SchemaCols(schema0) # {})
        => /\ outcome = "ok"
           /\ Len(WarningsAbout("missing from schema")) = Cardinality(Uncommented0 \ SchemaCols(schema0))
           /\ ChangedCols \cap (Uncommented0 \ SchemaCols(schema0)) = {}
           /\ Uncommented0 \cap SchemaCols(schema0) \subseteq ChangedCols

\* C4: every schema-description column that the live table lacks, or that is
\* already commented there, is warned about and gets no CHANGE COLUMN
\* statement, and the call completes, whatever the index flags and foreign
\* keys of the description.  (Stated for descriptions that describe every
\* uncommented live column, with plain comments.)
C4_ExtraSchemaColumnsAreSkipped ==
    (op = "updateSQLschema" /\ pc = "done"
        /\ Uncommented0 \subseteq SchemaCols(schema0)
        /\ (\A i \in 1..Len(schema0) : schema0[i].Comments \in {<<"x">>, <<"y">>})
        /\ SchemaCols(schema0) \ Uncommented0 # {})
        => /\ outcome = "ok"
           /\ \E i \in 1..Len(warnings) :
                 /\ warnings[i].about = "missing from table"
                 /\ warnings[i].cols = SchemaCols(schema0) \ Uncommented0
           /\ ChangedCols \cap (SchemaCols(schema0) \ Uncommented0) = {}

\* C5: after a call that completed, every column it issued a CHANGE COLUMN
\* for carries the Comments text of a schema-description row of that column,
\* with its type unchanged, and the columns commented before keep their comment.
C5_CommentRoundTrip ==
    (op = "updateSQLschema" /\ pc = "done" /\ outcome = "ok")
        => /\ \A c \in ChangedCols :
                 /\ c \in ColNames(db[Target])
                 /\ \E i \in 1..Len(schema0) :
                       /\ schema0[i].Column = c
                       /\ schema0[i].Comments = ColOf(db[Target], c).comment
                 /\ ColOf(db[Target], c).type = ColOf(db0[Target], c).type
           /\ \A c \in Commented0 :
                 ColOf(db[Target], c).comment = ColOf(db0[Target], c).comment

\* ---- both functions

\* C7: every table and column of the database at the start of a run of
\* proc_col_req or updateSQLschema still exists, with the same type, at every
\* point of the run; the statements sent are ADD COLUMN, CREATE TABLE,
\* ADD INDEX, ADD FOREIGN KEY and CHANGE COLUMN, the last one keeping the
\* column's name and type.
C7_NeverDestructive ==
    (op \in {"proc_col_req", "updateSQLschema"})
        => /\ \A t \in Tables :
                 db0[t].exists =>
                    /\ db[t].exists
                    /\ \A c \in ColNames(db0[t]) :
                          /\ c \in ColNames(db[t])
                          /\ ColOf(db[t], c).type = ColOf(db0[t], c).type
           /\ \A i \in 1..Len(log) :
                 /\ log[i].kind \in Kinds
                 /\ log[i].kind = "CHANGE COLUMN" =>
                       /\ log[i].newname = log[i].col
                       /\ log[i].col \in ColNames(db0[log[i].table])
                       /\ log[i].type = ColOf(db0[log[i].table], log[i].col).type

\* updateSQLschema completed after re-commenting a column whose type is not TEXT.
C7_Witness ==
    /\ op = "updateSQLschema" /\ pc = "done" /\ outcome = "ok"
    /\ \E i \in 1..Len(log) : log[i].kind = "CHANGE COLUMN" /\ log[i].type = "INT"

\* the columns marked indexed, and the rows with a foreign key, of table t
IndexedColsOf(t) ==
    IF op = "proc_col_req"
    THEN LET rows == SelectSeq(data, LAMBDA r : r.TABLE = t /\ r.INDEX = "True")
         IN  [i \in 1..Len(rows) |-> rows[i].DB_COLNAME]
    ELSE LET rows == SelectSeq(schema0, LAMBDA r : r.Index = 1)
         IN  [i \in 1..Len(rows) |-> rows[i].Column]

FkPairsOf(t) ==
    IF op = "proc_col_req"
    THEN LET rows == SelectSeq(data, LAMBDA r : r.TABLE = t /\ r.FOREIGNKEY # NA)
         IN  [i \in 1..Len(rows) |-> <<rows[i].DB_COLNAME, rows[i].FOREIGNKEY>>]
    ELSE LET rows == SelectSeq(schema0, LAMBDA r : r.ForeignKey # NA)
         IN  [i \in 1..Len(rows) |-> <<rows[i].Column, rows[i].ForeignKey>>]

\* the tables whose constraint application has run to its end in this run
Constrained ==
    IF op = "proc_col_req" THEN pl.finished
    ELSE IF op = "updateSQLschema" /\ ul.constrained THEN {Target}
    ELSE {}

\* C9: for a table whose constraint application has finished there is exactly
\* one ADD INDEX statement, naming all the columns marked indexed, when there
\* is at least one, and none when there is none; and exactly one ADD FOREIGN
\* KEY statement, ON DELETE NO ACTION ON UPDATE NO ACTION, for each row with a
\* foreign-key spec, in row order, so none when there is none.  No table ever
\* gets more than that.
C9_ConstraintStatements ==
    \A t \in Tables :
        LET idx == StmtsOfKind(t, "ADD INDEX")
            fk == StmtsOfKind(t, "ADD FOREIGN KEY")
        IN  /\ Len(idx) <= (IF Len(IndexedColsOf(t)) > 0 THEN 1 ELSE 0)
            /\ Len(fk) <= Len(FkPairsOf(t))
            /\ \A i \in 1..Len(idx) : idx[i].cols = IndexedColsOf(t)
            /\ \A i \in 1..Len(fk) :
                  /\ <<fk[i].col, fk[i].ref>> = FkPairsOf(t)[i]
                  /\ fk[i].onDelete = "NO ACTION" /\ fk[i].onUpdate = "NO ACTION"
            /\ t \in Constrained =>
                  /\ Len(idx) = (IF Len(IndexedColsOf(t)) > 0 THEN 1 ELSE 0)
                  /\ Len(fk) = Len(FkPairsOf(t))

\* A table with two columns marked indexed got its one ADD INDEX statement.
C9_Witness ==
    \E t \in Constrained :
        /\ Len(IndexedColsOf(t)) = 2
        /\ Len(StmtsOfKind(t, "ADD INDEX")) = 1
        /\ Len(StmtsOfKind(t, "ADD INDEX")[1].cols) = 2

\* ---- gen_engine

\* C10: the secret store changes only in a call that found no password stored
\* for its key, only after the test connection succeeded, and only at that
\* key; a call that fails leaves the store as it found it; a call that found
\* a password stored neither asks for one nor writes one.
C10_PasswordStoredOnlyAfterTest ==
    (op = "gen_engine" /\ pc # "idle")
        => /\ outcome = "OperationalError" => keyring = keyring0
           /\ keyring # keyring0 =>
                 /\ ge.tested /\ outcome = "ok"
                 /\ keyring0[GeKey] = NoPassword
                 /\ keyring = [keyring0 EXCEPT ![GeKey] = ge.passwd]
           /\ keyring0[GeKey] # NoPassword => (~ge.prompted /\ keyring = keyring0)
           /\ ge.prompted => keyring0[GeKey] = NoPassword

\* A call asked for the password, passed the test and stored it.
C10_Witness ==
    /\ op = "gen_engine" /\ pc = "done" /\ outcome = "ok"
    /\ ge.prompted /\ ge.tested
    /\ keyring0[GeKey] = NoPassword /\ keyring[GeKey] = ge.passwd

=============================================================================
